---- MODULE Spec2Model ----
(***************************************************************************)
(* Model of the roulette predictor of Tash108/MyTradingBot:                *)
(*   src/testRou.py   the decaying, dealer-aware RoulettePredictor         *)
(*   src/roulette.py  the simple RoulettePredictor (distances only)        *)
(*                                                                         *)
(* A predictor object is a record of its fields.  A Counter is a sequence  *)
(* of [k |-> key, w |-> weight] entries in insertion order (the order a    *)
(* Python dict iterates in, which most_common uses to break ties).         *)
(*                                                                         *)
(* Weights are the exact rational values of the code's floats, stored as   *)
(* integer multiples of 1/Scale(decay): the weight 1.0 is Scale(decay).    *)
(* The decay factor is the fraction decay.num / decay.den.                 *)
(***************************************************************************)
EXTENDS Integers, Sequences, FiniteSets

VARIABLES predictor, peer, simple, result

vars == <<predictor, peer, simple, result>>

-----------------------------------------------------------------------------
(* Bounds of the model.                                                    *)

\* spins recorded at most, general specification
MaxSpins == 3
\* spins recorded at most, one-dealer specification over six zones
MaxZoneSpins == 6
\* spins recorded at most, no-dealer specification of the weighted-count law
MaxLawSpins == 7
\* spins recorded at most, both predictors fed the same positions
MaxTwinSpins == 5
\* spins recorded at most, both predictors fed any position of the wheel
MaxWheelSpins == 3
\* spins recorded at most, two predictors with different ring-buffer bounds
MaxRingSpins == 4

Max2(a, b) == IF a >= b THEN a ELSE b

\* the largest number of decay steps an entry can have gone through
MaxDepth ==
    Max2(Max2(MaxSpins, Max2(MaxZoneSpins, MaxLawSpins)),
         Max2(MaxTwinSpins, Max2(MaxWheelSpins, MaxRingSpins))) - 1

-----------------------------------------------------------------------------
(* Module-level data and pure functions.                                   *)

wheel_sequence ==
    << 0, 32, 15, 19, 4, 21, 2, 25, 17, 34,
       6, 27, 13, 36, 11, 30, 8, 23, 10, 5,
       24, 16, 33, 1, 20, 14, 31, 9, 22, 18,
       29, 7, 28, 12, 35, 3, 26 >>

wheel_zones ==
    << {0, 32, 15, 19, 4},
       {21, 2, 25, 17, 34},
       {6, 27, 13, 36, 11},
       {30, 8, 23, 10, 5},
       {24, 16, 33, 1, 20},
       {14, 31, 9, 22, 18},
       {29, 7, 28, 12, 35},
       {3, 26} >>

\* len(wheel_sequence)
WheelLen == Len(wheel_sequence)

\* wheel_sequence.index, tabulated: the 0-based index of the first occurrence
WheelIndex ==
    [number \in {wheel_sequence[i] : i \in 1..WheelLen} |->
        (CHOOSE i \in 1..WheelLen :
            /\ wheel_sequence[i] = number
            /\ \A j \in 1..(i - 1) : wheel_sequence[j] # number) - 1]

\* index_on_wheel(number), for a number on the wheel (ValueError otherwise:
\* the callers test OnWheel first)
index_on_wheel(number) == WheelIndex[number]

\* list.index raises ValueError exactly when the number is not in the list
OnWheel(number) == number \in DOMAIN WheelIndex

distance_clockwise_no_wrap(from_num, to_num) ==
    IF index_on_wheel(to_num) >= index_on_wheel(from_num)
    THEN index_on_wheel(to_num) - index_on_wheel(from_num)
    ELSE index_on_wheel(from_num) - index_on_wheel(to_num)

distance_clockwise(from_num, to_num) ==
    (index_on_wheel(to_num) - index_on_wheel(from_num)) % WheelLen

distance_anticlockwise_swapped(from_num, to_num) ==
    (index_on_wheel(to_num) - index_on_wheel(from_num)) % WheelLen

distance_anticlockwise(from_num, to_num) ==
    (index_on_wheel(from_num) - index_on_wheel(to_num)) % WheelLen

get_spin_direction_flipped(spin_number) ==
    IF spin_number % 2 = 1 THEN "anticlockwise" ELSE "clockwise"

get_spin_direction(spin_number) ==
    IF spin_number % 2 = 1 THEN "clockwise" ELSE "anticlockwise"

Directions == {"clockwise", "anticlockwise"}

red_numbers == {1,3,5,7,9,12,14,16,18,19,21,23,25,27,30,32,34,36}
black_numbers == {2,4,6,8,10,11,13,15,17,20,22,24,26,28,29,31,33,35}

get_color(number) ==
    IF number = 0 THEN "green"
    ELSE IF number \in red_numbers THEN "red"
    ELSE IF number \in black_numbers THEN "black"
    ELSE "unknown"

\* the None that find_zone returns for a number in no zone
NoZone == 0

find_zone_from_zero(number) ==
    IF \E idx \in 1..Len(wheel_zones) : number \in wheel_zones[idx]
    THEN (CHOOSE idx \in 1..Len(wheel_zones) :
            /\ number \in wheel_zones[idx]
            /\ \A j \in 1..(idx - 1) : number \notin wheel_zones[j]) - 1
    ELSE NoZone

find_zone(number) ==
    IF \E idx \in 1..Len(wheel_zones) : number \in wheel_zones[idx]
    THEN CHOOSE idx \in 1..Len(wheel_zones) :
            /\ number \in wheel_zones[idx]
            /\ \A j \in 1..(idx - 1) : number \notin wheel_zones[j]
    ELSE NoZone

\* dealer=None
NoDealer == "<None>"

-----------------------------------------------------------------------------
(* Weights.                                                                *)

RECURSIVE Pow(_, _)
Pow(b, e) == IF e = 0 THEN 1 ELSE b * Pow(b, e - 1)

\* 1e-6 = 1 / PruneDen, the threshold of _apply_decay
PruneDen == 1000000

\* decay < 1e-6: a weight of 1.0 falls below the threshold in one decay step
BelowEpsilon(decay) == decay.num * PruneDen < decay.den

\* 10^MaxDepth, the scale of a decay factor in tenths
DecimalScale == Pow(10, MaxDepth)

\* The unit of weight is 1/Scale(decay).  An entry that has gone through j
\* decay steps is a multiple of 1/den^j.  With decay < 1e-6 every entry is at
\* most 1.0 when a decay step starts and is deleted by it, so no entry ever
\* goes through more than one step.
Scale(decay) ==
    IF BelowEpsilon(decay) THEN decay.den
    ELSE IF decay.den = 1 THEN 1
    ELSE IF decay.den = 10 THEN DecimalScale
    ELSE Pow(decay.den, MaxDepth)

\* the weight 1.0
One(decay) == Scale(decay)

Negligible_below_one(w, decay) == w < Scale(decay)

\* weight < 1e-6, that is w * PruneDen < Scale(decay)
Negligible(w, decay) == w < (Scale(decay) + PruneDen - 1) \div PruneDen

Decayed_not(w, decay) == w

\* weight * self.decay
Decayed(w, decay) == (w * decay.num) \div decay.den

-----------------------------------------------------------------------------
(* Counter: a sequence of entries [k, w] in insertion order.               *)

EmptyCounter == << >>

Keys(c) == {c[i].k : i \in 1..Len(c)}

\* c[key], 0 for a missing key
Weight(c, key) ==
    IF key \in Keys(c)
    THEN c[CHOOSE i \in 1..Len(c) : c[i].k = key].w
    ELSE 0

\* c[key] += 1: an existing key keeps its place, a new key goes last
Incr(c, key, decay) ==
    IF key \in Keys(c)
    THEN [i \in 1..Len(c) |->
            IF c[i].k = key THEN [k |-> key, w |-> c[i].w + One(decay)] ELSE c[i]]
    ELSE Append(c, [k |-> key, w |-> One(decay)])

\* for key in list(c): c[key] *= self.decay; if c[key] < 1e-6: del c[key]
DecayCounter(c, decay) ==
    SelectSeq([i \in 1..Len(c) |-> [k |-> c[i].k, w |-> Decayed(c[i].w, decay)]],
              LAMBDA e : ~Negligible(e.w, decay))

\* sum(c.values())
RECURSIVE Total(_)
Total(c) == IF c = << >> THEN 0 ELSE Head(c).w + Total(Tail(c))

\* first n elements of a sequence, all of it when n >= len
Take(s, n) == SubSeq(s, 1, IF n < Len(s) THEN (IF n < 0 THEN 0 ELSE n) ELSE Len(s))

\* e placed into a sequence sorted by descending weight, after its equals
RECURSIVE InsertDesc(_, _)
InsertDesc(sorted, e) ==
    IF sorted = << >> THEN <<e>>
    ELSE IF Head(sorted).w >= e.w
         THEN <<Head(sorted)>> \o InsertDesc(Tail(sorted), e)
         ELSE <<e>> \o sorted

\* sorted(c.items(), key=itemgetter(1), reverse=True): stable
RECURSIVE SortDesc(_)
SortDesc(c) ==
    IF c = << >> THEN << >>
    ELSE InsertDesc(SortDesc(SubSeq(c, 1, Len(c) - 1)), c[Len(c)])

\* Counter.most_common(n): the n heaviest entries, ties in insertion order
most_common(c, n) == Take(SortDesc(c), n)

-----------------------------------------------------------------------------
(* Number formatting of the report.                                        *)
(*                                                                         *)
(* The code formats doubles: f"{prob:.2%}" multiplies the double prob by   *)
(* 100 in double arithmetic and prints the product rounded to 2 decimals,  *)
(* f"{count:.2f}" prints the double rounded to 2 decimals; both roundings  *)
(* are of the exact value of the double, halves to even.  A double is a   *)
(* record [m, e]: m its 53 significant bits, most significant first, and   *)
(* e the exponent of the last bit, the value being m * 2^e.                *)

\* num/den scaled by a power of two into [1, 2): den <= num < 2 * den, the
\* value being (num / den) * 2^(-shift)
RECURSIVE Normalised(_, _, _)
Normalised(num, den, shift) ==
    IF num < den THEN Normalised(2 * num, den, shift + 1)
    ELSE IF num - den >= den THEN Normalised(num, 2 * den, shift - 1)
    ELSE [num |-> num, den |-> den, shift |-> shift]

\* k steps of the binary long division of r by den, r < den: the next k
\* bits of r/den and the remainder they leave
RECURSIVE Divided(_, _, _)
Divided(r, den, k) ==
    IF k = 0 THEN [bits |-> << >>, r |-> r]
    ELSE IF k = 1
         THEN IF r >= den - r THEN [bits |-> <<1>>, r |-> r - (den - r)]
                              ELSE [bits |-> <<0>>, r |-> 2 * r]
         ELSE LET head == Divided(r, den, k \div 2)
                  rest == Divided(head.r, den, k - k \div 2)
              IN  [bits |-> head.bits \o rest.bits, r |-> rest.r]

\* the next k bits of the binary expansion of r/den, r < den
DivBits(r, den, k) == Divided(r, den, k).bits

\* the remainder left after those k bits
DivRem(r, den, k) == Divided(r, den, k).r

\* the bits of b + 1
IncBits(b) ==
    LET n == Len(b)
    IN  IF \A i \in 1..n : b[i] = 1 THEN <<1>> \o SubSeq([i \in 1..n |-> 0], 1, n)
        ELSE LET p == CHOOSE i \in 1..n : b[i] = 0 /\ \A j \in (i + 1)..n : b[j] = 1
             IN  SubSeq([i \in 1..n |-> IF i < p THEN b[i] ELSE IF i = p THEN 1 ELSE 0],
                        1, n)

\* The double nearest to b * 2^e (+ a nonzero amount below the last bit of
\* b when sticky), halves to even: b has a leading 1 and at least 54 bits.
Round53(b, e, sticky) ==
    LET kept == SubSeq(b, 1, 53)
        rest == sticky \/ \E i \in 55..Len(b) : b[i] = 1
        up   == b[54] = 1 /\ (rest \/ b[53] = 1)
        exp  == e + (Len(b) - 53)
        s    == IncBits(kept)
    IN  IF ~up THEN [m |-> kept, e |-> exp]
        ELSE IF Len(s) = 54 THEN [m |-> SubSeq(s, 1, 53), e |-> exp + 1]
        ELSE [m |-> s, e |-> exp]

\* the double num / den of two doubles holding the integers num, den > 0 (or
\* the same multiple of them)
DoubleOf(num, den) ==
    LET n == Normalised(num, den, 0)
    IN  Round53(<<1>> \o DivBits(n.num - n.den, n.den, 53), -53 - n.shift,
                DivRem(n.num - n.den, n.den, 53) # 0)

\* b with leading zeros, n bits
PadBits(b, n) ==
    SubSeq([i \in 1..n |-> IF i <= n - Len(b) THEN 0 ELSE b[i - (n - Len(b))]], 1, n)

\* a + b for two bit sequences with a leading 1; the carry into a place is
\* generated by two 1s at a lower place and propagated by the places between
AddBits(a, b) ==
    LET n == (IF Len(a) >= Len(b) THEN Len(a) ELSE Len(b)) + 1
        x == PadBits(a, n)
        y == PadBits(b, n)
        carry(i) == \E j \in (i + 1)..n :
                        /\ x[j] = 1 /\ y[j] = 1
                        /\ \A k \in (i + 1)..(j - 1) : x[k] + y[k] = 1
        s == SubSeq([i \in 1..n |-> (x[i] + y[i] + IF carry(i) THEN 1 ELSE 0) % 2],
                    1, n)
    IN  IF s[1] = 0 THEN Tail(s) ELSE s

\* 100 * b = 64 b + 32 b + 4 b
Mul100(b) ==
    AddBits(AddBits(b \o <<0, 0, 0, 0, 0, 0>>, b \o <<0, 0, 0, 0, 0>>), b \o <<0, 0>>)

\* the integer a bit sequence spells
RECURSIVE BitsToInt(_)
BitsToInt(b) ==
    IF Len(b) = 0 THEN 0
    ELSE IF Len(b) = 1 THEN b[1]
    ELSE LET h == Len(b) \div 2
         IN  BitsToInt(SubSeq(b, 1, h)) * Pow(2, Len(b) - h)
                + BitsToInt(SubSeq(b, h + 1, Len(b)))

\* the double x printed with 2 decimals, in hundredths: 100 * x rounded to
\* the nearest integer, halves to even
Decimal2(x) ==
    LET K == Mul100(x.m)
        f == 0 - x.e
        padded == IF Len(K) < f + 1 THEN PadBits(K, f + 1) ELSE K
        whole == BitsToInt(SubSeq(padded, 1, Len(padded) - f))
        frac == SubSeq(padded, Len(padded) - f + 1, Len(padded))
    IN  IF x.e >= 0 THEN BitsToInt(K) * Pow(2, x.e)
        ELSE IF frac[1] = 1 /\ (whole % 2 = 1 \/ \E i \in 2..f : frac[i] = 1)
             THEN whole + 1
             ELSE whole

\* f"{num / den:.2f}" in hundredths, by double arithmetic
DoubleFix(num, den) == Decimal2(DoubleOf(num, den))

\* f"{num / den:.2%}" in hundredths of a percent, by double arithmetic: the
\* quotient is rounded to a double, times 100 rounded to a double, printed
DoublePct(num, den) ==
    LET prob == DoubleOf(num, den)
    IN  Decimal2(Round53(Mul100(prob.m), prob.e, FALSE))

\* f"{x:.2f}" of x = num / den, in hundredths.  By long division one decimal
\* digit at a time when the exact quotient is not half-way between two
\* hundredths: the double is within 2^-52 of it, the nearest half-way point
\* at least 1/(2 den) away, so both round alike.  Half-way, the double
\* decides (0.125 prints 0.12, a double just above 0.005 prints 0.01).
Rounded2(num, den) ==
    LET a == (num % den) * 10
        b == (a % den) * 10
        q == (num \div den) * 100 + (a \div den) * 10 + (b \div den)
        r == b % den
    IN  IF r = 0 THEN q
        ELSE IF r = den - r THEN DoubleFix(num, den)
        ELSE IF r > den - r THEN q + 1
        ELSE q

\* f"{x:.2%}" of x = num / den, in hundredths of a percent, likewise: 23/160
\* is exactly 14.375%, the double product 14.374999999999998 prints 14.37%
Rounded4(num, den) ==
    LET a == (num % den) * 10
        b == (a % den) * 10
        c == (b % den) * 10
        d == (c % den) * 10
        q == (num \div den) * 10000 + (a \div den) * 1000 + (b \div den) * 100
                + (c \div den) * 10 + (d \div den)
        r == d % den
    IN  IF r = 0 THEN q
        ELSE IF r = den - r THEN DoublePct(num, den)
        ELSE IF r > den - r THEN q + 1
        ELSE q

\* f"{count:.2f}": the weight in hundredths
Fmt2f(w, decay) == Rounded2(w, Scale(decay))

\* f"{prob:.2%}" of prob = count / total: hundredths of a percent
FmtPct(count, total) == Rounded4(count, total)

-----------------------------------------------------------------------------
(* RoulettePredictor of src/testRou.py.                                    *)

\* RoulettePredictor.__init__(max_history, decay)
RoulettePredictor(max_history, decay) ==
    [ spins               |-> << >>,
      max_history         |-> max_history,
      decay               |-> decay,
      distance_freq       |-> [d \in Directions |-> EmptyCounter],
      number_weights      |-> EmptyCounter,
      color_weights       |-> EmptyCounter,
      zone_weights        |-> EmptyCounter,
      dealer_zone_weights |-> [d \in {} |-> EmptyCounter],
      spin_history        |-> << >> ]

DecayDealers_keeps_empty(dzw, decay) ==
    [d \in DOMAIN dzw |-> DecayCounter(dzw[d], decay)]

\* the dealer loop of _apply_decay: every dealer's Counter decays, and a
\* dealer whose Counter became empty is deleted from the mapping
DecayDealers(dzw, decay) ==
    LET live == {d \in DOMAIN dzw : DecayCounter(dzw[d], decay) # << >>}
    IN  [d \in live |-> DecayCounter(dzw[d], decay)]

apply_decay_skips_dealers(P) ==
    [P EXCEPT
        !.distance_freq = [d \in Directions |-> DecayCounter(P.distance_freq[d], P.decay)],
        !.number_weights = DecayCounter(P.number_weights, P.decay),
        !.color_weights = DecayCounter(P.color_weights, P.decay),
        !.zone_weights = DecayCounter(P.zone_weights, P.decay)]

\* RoulettePredictor._apply_decay
apply_decay(P) ==
    [P EXCEPT
        !.distance_freq = [d \in Directions |-> DecayCounter(P.distance_freq[d], P.decay)],
        !.number_weights = DecayCounter(P.number_weights, P.decay),
        !.color_weights = DecayCounter(P.color_weights, P.decay),
        !.zone_weights = DecayCounter(P.zone_weights, P.decay),
        !.dealer_zone_weights = DecayDealers(P.dealer_zone_weights, P.decay)]

DequeAppend_unbounded(h, x, maxlen) == Append(h, x)

\* deque(maxlen=max_history).append(x)
DequeAppend(h, x, maxlen) ==
    LET s == Append(h, x)
    IN  IF Len(s) > maxlen THEN SubSeq(s, Len(s) - maxlen + 1, Len(s)) ELSE s

RecordSpin_bounded_spins(P, number, dealer) ==
    [P EXCEPT
        !.spins = DequeAppend(P.spins, <<number, dealer>>, P.max_history),
        !.spin_history = DequeAppend(P.spin_history, <<number, dealer>>, P.max_history)]

\* self.spins.append((number, dealer)); self.spin_history.append((number, dealer))
RecordSpin(P, number, dealer) ==
    [P EXCEPT
        !.spins = Append(P.spins, <<number, dealer>>),
        !.spin_history = DequeAppend(P.spin_history, <<number, dealer>>, P.max_history)]

\* self.number_weights[number] += 1; self.color_weights[get_color(number)] += 1
UpdateHot(P, number) ==
    [P EXCEPT
        !.number_weights = Incr(P.number_weights, number, P.decay),
        !.color_weights = Incr(P.color_weights, get_color(number), P.decay)]

\* the truth value of a dealer argument: None and "" are false
Truthy(dealer) == dealer \notin {NoDealer, ""}

\* the defaultdict access self.dealer_zone_weights[dealer][zone] += 1
IncrDealer(dzw, dealer, zone, decay) ==
    [d \in (DOMAIN dzw) \cup {dealer} |->
        IF d = dealer
        THEN Incr(IF d \in DOMAIN dzw THEN dzw[d] ELSE EmptyCounter, zone, decay)
        ELSE dzw[d]]

UpdateZones_dealer_or_overall(P, number, dealer) ==
    LET zone == find_zone(number)
    IN  IF zone = NoZone THEN P
        ELSE IF Truthy(dealer)
             THEN [P EXCEPT !.dealer_zone_weights =
                        IncrDealer(P.dealer_zone_weights, dealer, zone, P.decay)]
             ELSE [P EXCEPT !.zone_weights = Incr(P.zone_weights, zone, P.decay)]

UpdateZones_every_dealer(P, number, dealer) ==
    LET zone == find_zone(number)
    IN  IF zone = NoZone THEN P
        ELSE [P EXCEPT
                !.zone_weights = Incr(P.zone_weights, zone, P.decay),
                !.dealer_zone_weights =
                    IF Truthy(dealer)
                    THEN [d \in (DOMAIN P.dealer_zone_weights) \cup {dealer} |->
                            Incr(IF d \in DOMAIN P.dealer_zone_weights
                                 THEN P.dealer_zone_weights[d] ELSE EmptyCounter,
                                 zone, P.decay)]
                    ELSE P.dealer_zone_weights]

\* the zone update of add_spin
UpdateZones(P, number, dealer) ==
    LET zone == find_zone(number)
    IN  IF zone = NoZone THEN P
        ELSE [P EXCEPT
                !.zone_weights = Incr(P.zone_weights, zone, P.decay),
                !.dealer_zone_weights =
                    IF Truthy(dealer)
                    THEN IncrDealer(P.dealer_zone_weights, dealer, zone, P.decay)
                    ELSE P.dealer_zone_weights]

\* the directional distance from prev_num to number
Distance(direction, prev_num, number) ==
    IF direction = "clockwise"
    THEN distance_clockwise(prev_num, number)
    ELSE distance_anticlockwise(prev_num, number)

UpdateDistance_index_after_append(P) ==
    IF Len(P.spins) > 1
    THEN LET prev_num == P.spins[Len(P.spins) - 1][1]
             number == P.spins[Len(P.spins)][1]
             direction == get_spin_direction(Len(P.spins) + 1)
             dist == Distance(direction, prev_num, number)
         IN  [P EXCEPT !.distance_freq[direction] =
                            Incr(P.distance_freq[direction], dist, P.decay)]
    ELSE P

\* the distance update of add_spin, P.spins already holding the new spin
UpdateDistance(P) ==
    IF Len(P.spins) > 1
    THEN LET prev_num == P.spins[Len(P.spins) - 1][1]
             number == P.spins[Len(P.spins)][1]
             direction == get_spin_direction(Len(P.spins))
             dist == Distance(direction, prev_num, number)
         IN  [P EXCEPT !.distance_freq[direction] =
                            Incr(P.distance_freq[direction], dist, P.decay)]
    ELSE P

\* add_spin raises ValueError: index_on_wheel fails in the distance update
AddSpinRaises(P, number) ==
    /\ Len(P.spins) >= 1
    /\ ~(OnWheel(P.spins[Len(P.spins)][1]) /\ OnWheel(number))

add_spin_decays_last(P, number, dealer) ==
    LET recorded == UpdateZones(UpdateHot(RecordSpin(P, number, dealer),
                                          number), number, dealer)
    IN  apply_decay(IF AddSpinRaises(P, number) THEN recorded ELSE UpdateDistance(recorded))

\* RoulettePredictor.add_spin: the fields after the call.  When the call
\* raises, everything before the distance update has been done.
add_spin(P, number, dealer) ==
    LET recorded == UpdateZones(UpdateHot(RecordSpin(apply_decay(P), number, dealer),
                                          number), number, dealer)
    IN  IF AddSpinRaises(P, number) THEN recorded ELSE UpdateDistance(recorded)

\* most_common(10) of the hot numbers
HotNumbersTop == 10
\* most_common(5) of the hot zones, overall and per dealer
HotZonesTop == 5
\* the default n of predict_next_top_n
DefaultTopN == 15

PredictedNumber_always_forward(direction, last_index, dist) ==
    wheel_sequence[((last_index + dist) % WheelLen) + 1]

\* wheel_sequence[predicted_index]: last_index shifted by dist in direction
PredictedNumber(direction, last_index, dist) ==
    IF direction = "clockwise"
    THEN wheel_sequence[((last_index + dist) % WheelLen) + 1]
    ELSE wheel_sequence[((last_index - dist) % WheelLen) + 1]

\* dist_predictions, each formatted as a line of the report
DistPredictions(P, n, direction) ==
    LET freq == P.distance_freq[direction]
        total_dist_counts == Total(freq)
        last_index == index_on_wheel(P.spins[Len(P.spins)][1])
        common_distances == most_common(freq, n)
    IN  [i \in 1..Len(common_distances) |->
            [ number |-> PredictedNumber(direction, last_index, common_distances[i].k),
              dist   |-> common_distances[i].k,
              pct    |-> FmtPct(common_distances[i].w, total_dist_counts) ]]

\* the lines of a ranked list: key, weighted freq and share of total
RankedLines(ranked, total, decay) ==
    [i \in 1..Len(ranked) |->
        [ key  |-> ranked[i].k,
          freq |-> Fmt2f(ranked[i].w, decay),
          pct  |-> FmtPct(ranked[i].w, total) ]]

\* hot_colors: every color of color_weights in insertion order
HotColors(P) ==
    LET total_colors == Total(P.color_weights)
    IN  [i \in 1..Len(P.color_weights) |->
            [ color |-> P.color_weights[i].k,
              pct   |-> FmtPct(P.color_weights[i].w, total_colors) ]]

\* defaultdict(Counter).__getitem__(key): the mapping after the access.  A
\* key that is missing is inserted with an empty Counter; the value returned
\* is the entry of this mapping at key.
DefaultDictGetitem(dzw, key) ==
    [d \in (DOMAIN dzw) \cup {key} |->
        IF d \in DOMAIN dzw THEN dzw[d] ELSE EmptyCounter]

DealerKnown_truthy_only(P, dealer) == Truthy(dealer)

\* `dealer and dealer in self.dealer_zone_weights`: the membership test of a
\* defaultdict inserts nothing
DealerKnown(P, dealer) ==
    Truthy(dealer) /\ dealer \in DOMAIN P.dealer_zone_weights

\* dealer_zone_info, read through self.dealer_zone_weights[dealer] when the
\* guard passes; the None of an absent dealer is rendered like []
DealerZoneInfo(P, dealer) ==
    IF DealerKnown(P, dealer)
    THEN most_common(DefaultDictGetitem(P.dealer_zone_weights, dealer)[dealer],
                     HotZonesTop)
    ELSE << >>

\* the dealer section: prob = count / sum(c for _, c in dealer_zone_info)
DealerZoneLines(P, dealer) ==
    LET dealer_zone_info == DealerZoneInfo(P, dealer)
    IN  RankedLines(dealer_zone_info, Total(dealer_zone_info), P.decay)

HasNoSpins_below_two(P) == Len(P.spins) < 2

\* `not self.spins`
HasNoSpins(P) == P.spins = << >>

\* RoulettePredictor.predict_next_top_n: the value returned (or raised)
predict_next_top_n(P, n, dealer) ==
    LET spin_number == Len(P.spins) + 1
        direction == get_spin_direction(spin_number)
    IN  IF HasNoSpins(P) THEN [kind |-> "NoHistory"]
        ELSE IF P.distance_freq[direction] = << >>
        THEN [kind |-> "NoDistanceData", direction |-> direction]
        ELSE IF ~OnWheel(P.spins[Len(P.spins)][1]) THEN [kind |-> "ValueError"]
        ELSE [ kind             |-> "Report",
               spin_number      |-> spin_number,
               direction        |-> direction,
               dist_predictions |-> DistPredictions(P, n, direction),
               hot_numbers      |-> RankedLines(most_common(P.number_weights, HotNumbersTop),
                                                Total(P.number_weights), P.decay),
               hot_colors       |-> HotColors(P),
               hot_zones        |-> RankedLines(most_common(P.zone_weights, HotZonesTop),
                                                Total(P.zone_weights), P.decay),
               dealer           |-> dealer,
               dealer_zones     |-> IF dealer = NoDealer THEN << >>
                                    ELSE DealerZoneLines(P, dealer) ]

\* RoulettePredictor.predict_next_top_n: the fields after the call.  The
\* method assigns to no field and calls no mutating method; its reads of the
\* lists, the plain dict distance_freq and the Counters (truth value,
\* values(), items(), most_common()) insert nothing.  The one access that
\* can write is the indexing of the defaultdict self.dealer_zone_weights, made
\* twice when the guard passes; the two early returns and the ValueError of
\* index_on_wheel leave before it.
after_predict(P, n, dealer) ==
    LET direction == get_spin_direction(Len(P.spins) + 1)
    IN  IF HasNoSpins(P) THEN P
        ELSE IF P.distance_freq[direction] = << >> THEN P
        ELSE IF ~OnWheel(P.spins[Len(P.spins)][1]) THEN P
        ELSE IF DealerKnown(P, dealer)
             THEN [P EXCEPT !.dealer_zone_weights =
                      DefaultDictGetitem(
                          DefaultDictGetitem(P.dealer_zone_weights, dealer), dealer)]
             ELSE P

\* a call of add_spin returns None, or raises ValueError
AddSpinValue(P, number) ==
    IF AddSpinRaises(P, number) THEN [kind |-> "ValueError"] ELSE [kind |-> "None"]

-----------------------------------------------------------------------------
(* RoulettePredictor of src/roulette.py, the simple predictor: spins are    *)
(* bare numbers, the two distance Counters hold integer counts.             *)

simple_wheel_sequence ==
    << 0, 32, 15, 19, 4, 21, 2, 25, 17, 34,
       6, 27, 13, 36, 11, 30, 8, 23, 10, 5,
       24, 16, 33, 1, 20, 14, 31, 9, 22, 18,
       29, 7, 28, 12, 35, 3, 26 >>

\* len(wheel_sequence)
SimpleWheelLen == Len(simple_wheel_sequence)

\* wheel_sequence.index, tabulated
SimpleWheelIndex ==
    [number \in {simple_wheel_sequence[i] : i \in 1..SimpleWheelLen} |->
        (CHOOSE i \in 1..SimpleWheelLen :
            /\ simple_wheel_sequence[i] = number
            /\ \A j \in 1..(i - 1) : simple_wheel_sequence[j] # number) - 1]

simple_index_on_wheel(number) == SimpleWheelIndex[number]

SimpleOnWheel(number) == number \in DOMAIN SimpleWheelIndex

simple_distance_clockwise(from_num, to_num) ==
    (simple_index_on_wheel(to_num) - simple_index_on_wheel(from_num)) % SimpleWheelLen

simple_distance_anticlockwise(from_num, to_num) ==
    (simple_index_on_wheel(from_num) - simple_index_on_wheel(to_num)) % SimpleWheelLen

simple_get_spin_direction_even_clockwise(spin_number) ==
    IF spin_number % 2 = 0 THEN "clockwise" ELSE "anticlockwise"

simple_get_spin_direction(spin_number) ==
    IF spin_number % 2 = 1 THEN "clockwise" ELSE "anticlockwise"

\* RoulettePredictor.__init__()
SimplePredictor ==
    [ spins         |-> << >>,
      distance_freq |-> [d \in Directions |-> EmptyCounter] ]

\* c[key] += 1 on a Counter of integer counts
SimpleIncr(c, key) ==
    IF key \in Keys(c)
    THEN [i \in 1..Len(c) |->
            IF c[i].k = key THEN [k |-> key, w |-> c[i].w + 1] ELSE c[i]]
    ELSE Append(c, [k |-> key, w |-> 1])

\* add_spin raises ValueError: index_on_wheel fails, the number already appended
SimpleAddSpinRaises(S, number) ==
    /\ Len(S.spins) >= 1
    /\ ~(SimpleOnWheel(S.spins[Len(S.spins)]) /\ SimpleOnWheel(number))

\* RoulettePredictor.add_spin: the fields after the call
simple_add_spin(S, number) ==
    LET spin_number == Len(S.spins) + 1
        appended == [S EXCEPT !.spins = Append(S.spins, number)]
    IN  IF Len(appended.spins) > 1 /\ ~SimpleAddSpinRaises(S, number)
        THEN LET prev_num == appended.spins[Len(appended.spins) - 1]
                 direction == simple_get_spin_direction(spin_number)
                 dist == IF direction = "clockwise"
                         THEN simple_distance_clockwise(prev_num, number)
                         ELSE simple_distance_anticlockwise(prev_num, number)
             IN  [appended EXCEPT !.distance_freq[direction] =
                                      SimpleIncr(appended.distance_freq[direction], dist)]
        ELSE appended

\* `not self.spins`
SimpleHasNoSpins(S) == S.spins = << >>

\* RoulettePredictor.predict_next_top_n: the value returned (or raised)
simple_predict_next_top_n(S, n) ==
    LET spin_number == Len(S.spins) + 1
        direction == simple_get_spin_direction(spin_number)
        freq == S.distance_freq[direction]
    IN  IF SimpleHasNoSpins(S) THEN [kind |-> "NoHistory"]
        ELSE IF freq = << >>
        THEN [kind |-> "NoDistanceData", direction |-> direction]
        ELSE IF ~SimpleOnWheel(S.spins[Len(S.spins)]) THEN [kind |-> "ValueError"]
        ELSE LET total_counts == Total(freq)
                 last_index == simple_index_on_wheel(S.spins[Len(S.spins)])
                 common_distances == most_common(freq, n)
             IN  [ kind        |-> "Report",
                   spin_number |-> spin_number,
                   direction   |-> direction,
                   n           |-> n,
                   results     |->
                       [i \in 1..Len(common_distances) |->
                           [ number |->
                                 IF direction = "clockwise"
                                 THEN simple_wheel_sequence[
                                        ((last_index + common_distances[i].k)
                                            % SimpleWheelLen) + 1]
                                 ELSE simple_wheel_sequence[
                                        ((last_index - common_distances[i].k)
                                            % SimpleWheelLen) + 1],
                             dist   |-> common_distances[i].k,
                             pct    |-> FmtPct(common_distances[i].w, total_counts) ]] ]

-----------------------------------------------------------------------------
(* Inputs.                                                                 *)

\* decay=1.0, the default decay=0.9, and a decay below the prune threshold
NoDecay == [num |-> 1, den |-> 1]
DefaultDecay == [num |-> 9, den |-> 10]
TinyDecay == [num |-> 1, den |-> 2000000]

\* the default max_history
DefaultMaxHistory == 200

Positions == {0, 32, 15}
Dealers == {NoDealer, "A", "B"}
TopNs == {1, DefaultTopN}

\* one position of each of the zones 1..6
ZonePositions == {0, 21, 6, 30, 24, 14}

\* positions of the weighted-count law: 17 and two others
LawPositions == {17, 0, 32}

\* a number the command loop would reject, with valid ones
UnvalidatedPositions == {0, 32, 37}

\* every position of the wheel, and the first spins of the whole-wheel runs:
\* the first and the last slot of the wheel
WheelPositions == 0..36
WheelStarts == {0, 26}

\* ring-buffer bounds shorter than the histories recorded, and the positions
\* recorded under them
SmallMaxHistories == {1, 2}
RingPositions == {0, 32}

-----------------------------------------------------------------------------
(* State: the predictor, a second predictor fed beside it in the paired    *)
(* specifications, the simple predictor of roulette.py fed beside it in the *)
(* twin specifications, and the last call made with its value.              *)

\* no call made yet
NoCall == [call |-> "none", value |-> [kind |-> "None"]]

\* a call add_spin(number, dealer) on the predictor
AddSpin(number, dealer) ==
    /\ predictor' = add_spin(predictor, number, dealer)
    /\ result' = [call |-> "add_spin", number |-> number, dealer |-> dealer,
                  value |-> AddSpinValue(predictor, number)]
    /\ UNCHANGED <<peer, simple>>

\* a call predict_next_top_n(n, dealer) on the predictor
Predict(n, dealer) ==
    /\ predictor' = after_predict(predictor, n, dealer)
    /\ result' = [call |-> "predict", n |-> n, dealer |-> dealer,
                  value |-> predict_next_top_n(predictor, n, dealer)]
    /\ UNCHANGED <<peer, simple>>

\* add_spin(number, dealer) on the predictor and add_spin(number, other) on
\* the second predictor: the same position under two dealer labels
AddSpinBoth(number, dealer, other) ==
    /\ predictor' = add_spin(predictor, number, dealer)
    /\ peer' = add_spin(peer, number, other)
    /\ result' = [call |-> "add_spin", number |-> number, dealer |-> dealer,
                  value |-> AddSpinValue(predictor, number)]
    /\ UNCHANGED simple

InitWith(decays) ==
    /\ \E decay \in decays : predictor = RoulettePredictor(DefaultMaxHistory, decay)
    /\ peer = predictor
    /\ simple = SimplePredictor
    /\ result = NoCall

\* General specification: three positions, two dealers and no dealer.
Init == InitWith({NoDecay, DefaultDecay, TinyDecay})

Next ==
    \/ \E number \in Positions, dealer \in Dealers :
          Len(predictor.spins) < MaxSpins /\ AddSpin(number, dealer)
    \/ \E n \in TopNs, dealer \in Dealers : Predict(n, dealer)

Spec == Init /\ [][Next]_vars

\* One dealer over six zones.
InitZones == InitWith({NoDecay, DefaultDecay})

\* the zones are taken into use in ascending order: a spin lands in a zone
\* already used or in the next one (the tables never compare zone numbers)
NextZones ==
    \/ \E number \in ZonePositions :
          /\ Len(predictor.spins) < MaxZoneSpins
          /\ find_zone(number) <= Len(predictor.zone_weights) + 1
          /\ AddSpin(number, "A")
    \/ \E n \in TopNs : Predict(n, "A")

SpecZones == InitZones /\ [][NextZones]_vars

\* No dealer, long histories.
InitLaw == InitWith({NoDecay, DefaultDecay, TinyDecay})

NextLaw ==
    \/ \E number \in LawPositions :
          Len(predictor.spins) < MaxLawSpins /\ AddSpin(number, NoDealer)
    \/ \E n \in TopNs : Predict(n, NoDealer)

SpecLaw == InitLaw /\ [][NextLaw]_vars

\* Two predictors fed the same positions under different dealer labels.
InitPair == InitWith({NoDecay, DefaultDecay, TinyDecay})

NextPair ==
    \/ \E number \in Positions, dealer \in {NoDealer, "A"}, other \in {NoDealer, "B"} :
          Len(predictor.spins) < MaxSpins /\ AddSpinBoth(number, dealer, other)
    \/ \E n \in TopNs : Predict(n, NoDealer)

SpecPair == InitPair /\ [][NextPair]_vars

\* Positions that were not validated by the caller.
InitUnvalidated == InitWith({NoDecay, DefaultDecay})

NextUnvalidated ==
    \/ \E number \in UnvalidatedPositions, dealer \in {NoDealer, "A"} :
          Len(predictor.spins) < MaxSpins /\ AddSpin(number, dealer)
    \/ \E n \in TopNs, dealer \in {NoDealer, "A"} : Predict(n, dealer)

SpecUnvalidated == InitUnvalidated /\ [][NextUnvalidated]_vars

\* add_spin(number, dealer) on the predictor and add_spin(number) on the
\* simple predictor
AddSpinTwin(number, dealer) ==
    /\ predictor' = add_spin(predictor, number, dealer)
    /\ simple' = simple_add_spin(simple, number)
    /\ result' = [call |-> "add_spin", number |-> number, dealer |-> dealer,
                  value |-> AddSpinValue(predictor, number)]
    /\ UNCHANGED peer

\* predict_next_top_n(n, dealer) on the predictor and predict_next_top_n(n) on
\* the simple predictor
PredictTwin(n, dealer) ==
    /\ predictor' = after_predict(predictor, n, dealer)
    /\ result' = [call |-> "predict", n |-> n, dealer |-> dealer,
                  value |-> predict_next_top_n(predictor, n, dealer),
                  simple_value |-> simple_predict_next_top_n(simple, n)]
    /\ UNCHANGED <<peer, simple>>

\* Both predictors fed the same positions.
InitTwin == InitWith({NoDecay, DefaultDecay})

NextTwin ==
    \/ \E number \in Positions :
          Len(predictor.spins) < MaxTwinSpins /\ AddSpinTwin(number, NoDealer)
    \/ \E n \in TopNs, dealer \in Dealers : PredictTwin(n, dealer)

SpecTwin == InitTwin /\ [][NextTwin]_vars

\* Both predictors fed any position of the wheel.
InitWheel == InitWith({NoDecay})

NextWheel ==
    \/ \E number \in WheelPositions :
          /\ Len(predictor.spins) < MaxWheelSpins
          /\ predictor.spins = << >> => number \in WheelStarts
          /\ AddSpinTwin(number, NoDealer)
    \/ PredictTwin(DefaultTopN, NoDealer)

SpecWheel == InitWheel /\ [][NextWheel]_vars

\* Two predictors with different ring-buffer bounds fed the same calls.
InitRing ==
    /\ \E decay \in {NoDecay, DefaultDecay}, max_history \in SmallMaxHistories :
          /\ predictor = RoulettePredictor(max_history, decay)
          /\ peer = RoulettePredictor(DefaultMaxHistory, decay)
    /\ simple = SimplePredictor
    /\ result = NoCall

NextRing ==
    \/ \E number \in RingPositions, dealer \in {NoDealer, "A"} :
          Len(predictor.spins) < MaxRingSpins /\ AddSpinBoth(number, dealer, dealer)
    \/ \E n \in TopNs, dealer \in {NoDealer, "A"} : Predict(n, dealer)

SpecRing == InitRing /\ [][NextRing]_vars


-----------------------------------------------------------------------------
(* Vocabulary of the properties.                                           *)

\* the direction the specification gives spin index k
ParityDirection(k) == IF k % 2 = 1 THEN "clockwise" ELSE "anticlockwise"

OtherDirection(d) == IF d = "clockwise" THEN "anticlockwise" ELSE "clockwise"

\* positions of the recorded spins, in order
PositionsOf(P) == [i \in 1..Len(P.spins) |-> P.spins[i][1]]

LastPosition(P) == P.spins[Len(P.spins)][1]

\* the last call was predict_next_top_n and it returned a report
Reported == result.call = "predict" /\ result.value.kind = "Report"

\* the (zone, weight) entries held for a dealer
EntriesOf(P, dealer) ==
    IF dealer \in DOMAIN P.dealer_zone_weights
    THEN {<<P.dealer_zone_weights[dealer][i].k, P.dealer_zone_weights[dealer][i].w>> :
            i \in 1..Len(P.dealer_zone_weights[dealer])}
    ELSE {}

\* no weight of c exceeds its weight in b, and c has no key b lacks
Attenuated(c, b) ==
    /\ Keys(c) \subseteq Keys(b)
    /\ \A key \in Keys(c) : Weight(c, key) <= Weight(b, key)

-----------------------------------------------------------------------------
(* C1 *)

\* C1: the direction of spin index k is clockwise for odd k and anticlockwise
\* for even k.  add_spin puts the distance sample of the k-th spin (k >= 2),
\* measured in direction(k) from the previous position, into the table of
\* direction(k) and adds nothing to the other table; predict_next_top_n
\* resolves direction(len(history)+1) and reports that spin index.  So the
\* resolved direction flips on every add_spin and stays on every predict.
C1_DirectionByParity ==
    [][ /\ result'.call = "add_spin" =>
            LET k == Len(predictor'.spins)
                dir == ParityDirection(k)
            IN  /\ k = Len(predictor.spins) + 1
                /\ get_spin_direction(k + 1) = ParityDirection(k + 1)
                /\ get_spin_direction(k + 1) # get_spin_direction(k)
                /\ k >= 2 =>
                    /\ Weight(predictor'.distance_freq[dir],
                              Distance(dir, LastPosition(predictor), result'.number))
                          >= One(predictor.decay)
                    /\ Total(predictor'.distance_freq[dir])
                          > Total(DecayCounter(predictor.distance_freq[dir], predictor.decay))
                    /\ Attenuated(predictor'.distance_freq[OtherDirection(dir)],
                                  predictor.distance_freq[OtherDirection(dir)])
                /\ k = 1 => \A d \in Directions : predictor'.distance_freq[d] = << >>
        /\ result'.call = "predict" =>
            /\ Len(predictor'.spins) = Len(predictor.spins)
            /\ result'.value.kind \in {"NoDistanceData", "Report"} =>
                  result'.value.direction = ParityDirection(Len(predictor.spins) + 1)
            /\ result'.value.kind = "Report" =>
                  result'.value.spin_number = Len(predictor.spins) + 1
      ]_vars

\* a report for spin #4, anticlockwise, after three recorded spins
C1_Witness ==
    /\ Reported
    /\ Len(predictor.spins) = 3
    /\ result.value.direction = "anticlockwise"
    /\ predictor.distance_freq["clockwise"] # << >>

-----------------------------------------------------------------------------
(* C2 *)

\* predict_next_top_n reports NoDistanceData exactly when spins are recorded
\* and the distance table of the resolved direction is empty
NoDistanceDataIffEmpty ==
    result.call = "predict" =>
        (result.value.kind = "NoDistanceData"
            <=> /\ predictor.spins # << >>
                /\ predictor.distance_freq[ParityDirection(Len(predictor.spins) + 1)] = << >>)

\* C2 as stated: NoDistanceData is reported for the empty table of the
\* resolved direction, and for every decay factor only while that direction
\* has never received a sample, that is with 1 or 2 recorded spins.
C2_Original ==
    /\ NoDistanceDataIffEmpty
    /\ (result.call = "predict" /\ result.value.kind = "NoDistanceData")
          => Len(predictor.spins) \in {1, 2}

\* C2 amended: the same for every decay factor of at least 1e-6.  (A smaller
\* factor takes a sample of weight 1 below the prune threshold in one step.)
C2_NoDistanceDataOnlyEarly ==
    /\ NoDistanceDataIffEmpty
    /\ (result.call = "predict" /\ result.value.kind = "NoDistanceData"
            /\ ~BelowEpsilon(predictor.decay))
          => Len(predictor.spins) \in {1, 2}

\* decay 0.9, three spins recorded: both tables hold a decayed or fresh
\* sample and the prediction is a report
C2_Witness ==
    /\ Reported
    /\ predictor.decay = DefaultDecay
    /\ Len(predictor.spins) = 3
    /\ Weight(predictor.distance_freq["anticlockwise"],
              result.value.dist_predictions[1].dist) < One(predictor.decay)

-----------------------------------------------------------------------------
(* C3 *)

\* the entries of a dealer's table after one decay step
DecayedEntries(P, dealer) ==
    {<<e[1], Decayed(e[2], P.decay)>> :
        e \in {x \in EntriesOf(P, dealer) : ~Negligible(Decayed(x[2], P.decay), P.decay)}}

\* C3 as stated: add_spin(p, dealer=A) leaves the (zone, weight) entries of
\* every other dealer B as they were.
C3_Original ==
    [][ result'.call = "add_spin" =>
            \A B \in {"A", "B"} \ {result'.dealer} :
                EntriesOf(predictor', B) = EntriesOf(predictor, B)
      ]_vars

\* C3 amended: add_spin(p, dealer=A) changes the table of another dealer B by
\* the decay step alone: every entry of B is multiplied by the decay factor
\* and deleted if that takes it below 1e-6 (B leaves the mapping when its last
\* entry is deleted); no zone of B is added or incremented, and the order of
\* B's entries is kept.  With decay 1.0 B's table is unchanged.
C3_OtherDealerOnlyDecays ==
    [][ result'.call = "add_spin" =>
            \A B \in {"A", "B"} \ {result'.dealer} :
                /\ EntriesOf(predictor', B) = DecayedEntries(predictor, B)
                /\ B \in DOMAIN predictor'.dealer_zone_weights =>
                      /\ B \in DOMAIN predictor.dealer_zone_weights
                      /\ predictor'.dealer_zone_weights[B]
                            = DecayCounter(predictor.dealer_zone_weights[B], predictor.decay)
                /\ predictor.decay = NoDecay =>
                      EntriesOf(predictor', B) = EntriesOf(predictor, B)
      ]_vars

\* add_spin with dealer A has just run while dealer B holds a decayed entry
C3_Witness ==
    /\ result.call = "add_spin"
    /\ result.dealer = "A"
    /\ predictor.decay = DefaultDecay
    /\ \E e \in EntriesOf(predictor, "B") : e[2] < One(predictor.decay)

-----------------------------------------------------------------------------
(* C4 *)

\* C4: predict_next_top_n changes no field of the predictor, whatever it
\* returns (NoHistory, NoDistanceData or a report) and whatever dealer it
\* names: after the reads the call makes, history, ring buffer, all weight
\* tables and the dealer mapping with its key set are what they were before;
\* a call that directly follows a call with the same arguments returns the
\* same value; and in every state a call made again on the fields the first
\* call left returns what the first returned.
C4_PredictReadOnly ==
    /\ [][ result'.call = "predict" =>
                /\ predictor'.spins = predictor.spins
                /\ predictor'.spin_history = predictor.spin_history
                /\ predictor'.distance_freq = predictor.distance_freq
                /\ predictor'.number_weights = predictor.number_weights
                /\ predictor'.color_weights = predictor.color_weights
                /\ predictor'.zone_weights = predictor.zone_weights
                /\ DOMAIN predictor'.dealer_zone_weights
                      = DOMAIN predictor.dealer_zone_weights
                /\ predictor'.dealer_zone_weights = predictor.dealer_zone_weights
                /\ predictor' = predictor
          ]_vars
    /\ [][ ( /\ result.call = "predict"
             /\ result'.call = "predict"
             /\ result'.n = result.n
             /\ result'.dealer = result.dealer )
           => result'.value = result.value
          ]_vars
    /\ [](\A n \in TopNs, dealer \in Dealers :
            predict_next_top_n(after_predict(predictor, n, dealer), n, dealer)
                = predict_next_top_n(predictor, n, dealer))

\* a report was returned for dealer B, who has no table
C4_Witness ==
    /\ Reported
    /\ result.dealer = "B"
    /\ "B" \notin DOMAIN predictor.dealer_zone_weights
    /\ "A" \in DOMAIN predictor.dealer_zone_weights

-----------------------------------------------------------------------------
(* C5 *)

\* C5: in a report for a named dealer with zone observations, the probability
\* of each listed zone is its weight over the total of the dealer's whole
\* table, every zone held for the dealer counted.
C5_DealerShareOfWholeTable ==
    (Reported /\ Truthy(result.value.dealer)
        /\ result.value.dealer \in DOMAIN predictor.dealer_zone_weights)
    => LET table == predictor.dealer_zone_weights[result.value.dealer]
       IN  /\ result.value.dealer_zones # << >>
           /\ \A i \in 1..Len(result.value.dealer_zones) :
                 result.value.dealer_zones[i].pct
                     = FmtPct(Weight(table, result.value.dealer_zones[i].key), Total(table))

-----------------------------------------------------------------------------
(* C6 *)

\* the scenario of C6: decay 1.0, spins [0, 32], with the anticlockwise
\* table holding the one entry (dist, 1.0)
AfterZeroThirtyTwo(dist) ==
    (predictor.decay = NoDecay /\ PositionsOf(predictor) = <<0, 32>>)
    => /\ predictor.distance_freq["anticlockwise"] = <<[k |-> dist, w |-> One(NoDecay)]>>
       /\ distance_anticlockwise(0, 32) = dist
       /\ predictor.distance_freq["clockwise"] = << >>
       /\ result.call = "predict" =>
             result.value = [kind |-> "NoDistanceData", direction |-> "clockwise"]

\* C6 as stated: the entry is at distance 1.
C6_Original == AfterZeroThirtyTwo(1)

\* C6 amended: with decay 1.0, after add_spin(0) then add_spin(32) the
\* anticlockwise table holds exactly one entry, at distance 36
\* (anticlockwiseDistance(0,32) = (0 - 1) mod 37 = 36) with weight 1, the
\* clockwise table is empty and the prediction for spin #3 is NoDistanceData.
C6_ZeroThirtyTwo == AfterZeroThirtyTwo(36)

C6_Witness ==
    /\ predictor.decay = NoDecay
    /\ PositionsOf(predictor) = <<0, 32>>
    /\ result.call = "predict"
    /\ result.value.kind = "NoDistanceData"

-----------------------------------------------------------------------------
(* C7 *)

\* C7: every distance-based candidate of a report comes from an entry of the
\* resolved direction's table: its distance is a key of that table, its
\* probability is that entry's share of the table, and the directional
\* distance from the last position to the candidate is that distance.  With
\* decay 1.0 after spins [0, 32, 15] the report for spin #4 (anticlockwise)
\* lists one candidate at 100%: 15 shifted anticlockwise by the 36 stored at
\* spin #2, which is 19; the clockwise sample of spin #3 is not listed.
C7_CandidatesFromResolvedTable ==
    Reported =>
        LET dir == ParityDirection(Len(predictor.spins) + 1)
            table == predictor.distance_freq[dir]
            lines == result.value.dist_predictions
        IN  /\ Len(lines) >= 1
            /\ Len(lines) <= Len(table)
            /\ \A i \in 1..Len(lines) :
                  /\ lines[i].dist \in Keys(table)
                  /\ lines[i].pct = FmtPct(Weight(table, lines[i].dist), Total(table))
                  /\ lines[i].number \in 0..36
                  /\ Distance(dir, LastPosition(predictor), lines[i].number) = lines[i].dist
            /\ (predictor.decay = NoDecay /\ PositionsOf(predictor) = <<0, 32, 15>>) =>
                  /\ lines = <<[number |-> 19, dist |-> 36, pct |-> 10000]>>
                  /\ Keys(predictor.distance_freq["clockwise"])
                        = {distance_clockwise(32, 15)}
                  /\ distance_clockwise(32, 15) # 36

C7_Witness ==
    /\ Reported
    /\ predictor.decay = NoDecay
    /\ PositionsOf(predictor) = <<0, 32, 15>>
    /\ Len(result.value.dist_predictions) = 1

-----------------------------------------------------------------------------
(* C8 *)

\* d^a in units of weight, d = decay.num / decay.den (rounded down where
\* d^a is no multiple of the unit, which is only below the prune threshold)
RECURSIVE PowerUnits(_, _)
PowerUnits(decay, a) ==
    IF a = 0 THEN Scale(decay)
    ELSE (PowerUnits(decay, a - 1) * decay.num) \div decay.den

\* the sum over i = 1..N of d^(N-i), in units of weight
RECURSIVE GeometricUnits(_, _)
GeometricUnits(decay, N) ==
    IF N = 0 THEN 0 ELSE PowerUnits(decay, N - 1) + GeometricUnits(decay, N - 1)

\* d^a >= 1e-6: an observation that is a decay steps old is not pruned
Kept(decay, a) == PowerUnits(decay, a) >= (Scale(decay) + PruneDen - 1) \div PruneDen

\* position 17 recorded once, as the first spin, then six other spins
SeventeenThenSix ==
    /\ Len(predictor.spins) = 7
    /\ predictor.spins[1][1] = 17
    /\ \A i \in 2..7 : predictor.spins[i][1] # 17

\* 0.9^6 in units of weight
NineTenthsToTheSixth == Pow(9, 6) * (Scale(DefaultDecay) \div Pow(10, 6))

\* C8 as stated: after N add_spin calls with decay d the number table totals
\* the sum over i = 1..N of d^(N-i), whatever d; 17 once and six more spins
\* with decay 0.9 leave 17 the weight 0.9^6.
C8_Original ==
    /\ Total(predictor.number_weights)
          = GeometricUnits(predictor.decay, Len(predictor.spins))
    /\ (predictor.decay = DefaultDecay /\ SeventeenThenSix)
          => Weight(predictor.number_weights, 17) = NineTenthsToTheSixth

\* C8 amended: the law holds while no observation has been pruned, that is
\* while d^(N-1) >= 1e-6.  (An observation whose weight has fallen below 1e-6
\* is deleted, and the total is then smaller than the sum: with d < 1e-6 the
\* total is 1 after every spin.)  17 recorded once and then six spins other
\* than 17 with decay 0.9 leave 17 the weight 0.9^6.
C8_WeightedCountLaw ==
    /\ (predictor.spins # << >> /\ Kept(predictor.decay, Len(predictor.spins) - 1))
          => Total(predictor.number_weights)
                = GeometricUnits(predictor.decay, Len(predictor.spins))
    /\ (predictor.spins # << >> /\ ~Kept(predictor.decay, 1))
          => Total(predictor.number_weights) = One(predictor.decay)
    /\ (predictor.decay = DefaultDecay /\ SeventeenThenSix)
          => Weight(predictor.number_weights, 17) = NineTenthsToTheSixth

C8_Witness ==
    /\ predictor.decay = DefaultDecay
    /\ SeventeenThenSix
    /\ Weight(predictor.number_weights, 17) < One(DefaultDecay)
    /\ Len(predictor.number_weights) = 3

-----------------------------------------------------------------------------
(* C9 *)

\* a predictor with its dealer tables taken away
WithoutDealerTables(P) ==
    [P EXCEPT !.dealer_zone_weights = [d \in {} |-> EmptyCounter]]

\* C9: two predictors fed the same positions under different dealer labels
\* return the same value from predict_next_top_n(dealer=None) at every step,
\* and that value is the one a predictor without any dealer table returns.
C9_NoDealerReportIgnoresDealers ==
    /\ PositionsOf(peer) = PositionsOf(predictor)
    /\ \A n \in TopNs :
          /\ predict_next_top_n(predictor, n, NoDealer)
                = predict_next_top_n(peer, n, NoDealer)
          /\ predict_next_top_n(predictor, n, NoDealer)
                = predict_next_top_n(WithoutDealerTables(predictor), n, NoDealer)

\* a report was returned while the two predictors hold different dealer tables
C9_Witness ==
    /\ Reported
    /\ DOMAIN predictor.dealer_zone_weights = {"A"}
    /\ DOMAIN peer.dealer_zone_weights = {"B"}
    /\ predictor.dealer_zone_weights["A"] # peer.dealer_zone_weights["B"]

-----------------------------------------------------------------------------
(* C10 *)

\* C10: add_spin with a position outside 0..36 fails and records nothing:
\* the call does not return normally and leaves history and tables as they
\* were, in any state, the empty predictor included.
C10_InvalidPositionRejected ==
    [][ (result'.call = "add_spin" /\ result'.number \notin 0..36) =>
            /\ result'.value.kind # "None"
            /\ predictor' = predictor
      ]_vars

-----------------------------------------------------------------------------
(* C11 *)

\* C11: predict_next_top_n fails with NoHistory exactly on a predictor with
\* no recorded spin, for every n and every dealer argument, in the richer and
\* in the simple predictor: always on the empty predictor, never once one
\* add_spin has been performed.
C11_NoHistoryIffEmpty ==
    /\ \A n \in TopNs, dealer \in Dealers :
          (predict_next_top_n(predictor, n, dealer).kind = "NoHistory")
              <=> (Len(predictor.spins) = 0)
    /\ \A n \in TopNs :
          (simple_predict_next_top_n(simple, n).kind = "NoHistory")
              <=> (Len(simple.spins) = 0)
    /\ result.call = "predict" =>
          /\ (result.value.kind = "NoHistory") <=> (Len(predictor.spins) = 0)
          /\ (result.simple_value.kind = "NoHistory") <=> (Len(simple.spins) = 0)
    /\ result.call = "add_spin" => Len(predictor.spins) >= 1 /\ Len(simple.spins) >= 1

\* both predictors were asked, for a named dealer, before any spin
C11_Witness ==
    /\ result.call = "predict"
    /\ predictor.spins = << >>
    /\ simple.spins = << >>
    /\ result.value = [kind |-> "NoHistory"]
    /\ result.simple_value = [kind |-> "NoHistory"]

-----------------------------------------------------------------------------
(* C12 *)

\* the two distances of every pair of positions, in both source files
DistancesComplementary ==
    \A a \in 0..36, b \in 0..36 :
        /\ distance_clockwise(a, b) = (37 - distance_anticlockwise(a, b)) % 37
        /\ distance_clockwise(a, b) \in 0..36
        /\ distance_anticlockwise(a, b) \in 0..36
        /\ simple_distance_clockwise(a, b) = (37 - simple_distance_anticlockwise(a, b)) % 37
        /\ simple_distance_clockwise(a, b) \in 0..36
        /\ simple_distance_anticlockwise(a, b) \in 0..36

DistanceToSelfIsZero ==
    \A a \in 0..36 :
        distance_clockwise(a, a) = 0 /\ simple_distance_clockwise(a, a) = 0

\* the sample add_spin stored for the last pair of spins is the complement
\* of the distance of that pair in the other direction
LastSampleComplementary(distance_freq, positions) ==
    Len(positions) >= 2 =>
        LET a == positions[Len(positions) - 1]
            b == positions[Len(positions)]
            dir == ParityDirection(Len(positions))
        IN  \E d \in Keys(distance_freq[dir]) :
                /\ d \in 0..36
                /\ d = Distance(dir, a, b)
                /\ (37 - d) % 37 = Distance(OtherDirection(dir), a, b)

\* C12: for all positions a, b in 0..36 the clockwise distance is
\* (37 - anticlockwise distance) mod 37, both distances lie in 0..36 and the
\* clockwise distance from a to a is 0; the distance add_spin stores for two
\* consecutive spins obeys the same relation.
C12_DistancesComplementary ==
    /\ DistancesComplementary
    /\ DistanceToSelfIsZero
    /\ LastSampleComplementary(predictor.distance_freq, PositionsOf(predictor))
    /\ LastSampleComplementary(simple.distance_freq, simple.spins)

\* spins 0, 26, 32: anticlockwise from slot 0 to slot 36 is 1 step, clockwise
\* from slot 36 to slot 1 wraps round to 2 steps
C12_Witness ==
    /\ PositionsOf(predictor) = <<0, 26, 32>>
    /\ simple.spins = <<0, 26, 32>>
    /\ Keys(predictor.distance_freq["anticlockwise"]) = {1}
    /\ Keys(predictor.distance_freq["clockwise"]) = {2}
    /\ Keys(simple.distance_freq["clockwise"]) = {2}

-----------------------------------------------------------------------------
(* C13 *)

\* the sizes of the zones in wheel order
ZoneSizes == <<5, 5, 5, 5, 5, 5, 5, 2>>

\* the wheel slots before zone idx
RECURSIVE SlotsBefore(_)
SlotsBefore(idx) == IF idx = 1 THEN 0 ELSE SlotsBefore(idx - 1) + ZoneSizes[idx - 1]

\* the 8 zones partition the 37 positions into runs of the wheel ordering
ZonesPartitionWheel ==
    /\ Len(wheel_zones) = 8
    /\ \A p \in 0..36 :
          /\ Cardinality({idx \in 1..Len(wheel_zones) : p \in wheel_zones[idx]}) = 1
          /\ find_zone(p) # NoZone
          /\ find_zone(p) \in 1..8
          /\ p \in wheel_zones[find_zone(p)]
    /\ \A idx \in 1..8 :
          /\ Cardinality(wheel_zones[idx]) = ZoneSizes[idx]
          /\ wheel_zones[idx] =
                {wheel_sequence[j] : j \in (SlotsBefore(idx) + 1)..(SlotsBefore(idx) + ZoneSizes[idx])}
          /\ wheel_zones[idx] = {p \in 0..36 : find_zone(p) = idx}

\* C13: the 8 zones partition the 37 wheel positions: every position 0..36
\* is in exactly one zone and find_zone never yields "no zone" for it; the
\* zone sizes are 5,5,5,5,5,5,5,2 and each zone is a contiguous run of the
\* wheel ordering.  So every add_spin with a valid position increments the
\* overall zone table exactly once: the zone of the position gains 1 over
\* its decayed weight and no other zone gains anything.
C13_ZonesPartition ==
    /\ [] ZonesPartitionWheel
    /\ [][ (result'.call = "add_spin" /\ result'.number \in 0..36) =>
              LET before == DecayCounter(predictor.zone_weights, predictor.decay)
                  zone == find_zone(result'.number)
              IN  /\ Total(predictor'.zone_weights) = Total(before) + One(predictor.decay)
                  /\ Keys(predictor'.zone_weights) = Keys(before) \cup {zone}
                  /\ \A z \in Keys(predictor'.zone_weights) :
                        Weight(predictor'.zone_weights, z) =
                            Weight(before, z) + (IF z = zone THEN One(predictor.decay) ELSE 0)
         ]_vars

\* a spin in the two-position zone 8 has just been recorded after a spin in
\* zone 1
C13_Witness ==
    /\ result.call = "add_spin"
    /\ result.number \in {3, 26}
    /\ Len(predictor.spins) = 2
    /\ Keys(predictor.zone_weights) = {1, 8}
    /\ Weight(predictor.zone_weights, 8) = One(predictor.decay)

-----------------------------------------------------------------------------
(* C14 *)

\* the dealers that have a table
DealersOf(P) == DOMAIN P.dealer_zone_weights

\* C14 as stated: no call removes a dealer from the dealer-to-table mapping.
C14_Original ==
    [][DealersOf(predictor) \subseteq DealersOf(predictor')]_vars

\* the dealers whose table keeps an entry of at least 1e-6 through one decay
\* step
DealersKept(P) ==
    {d \in DealersOf(P) :
        \E i \in 1..Len(P.dealer_zone_weights[d]) :
            P.dealer_zone_weights[d][i].w * P.decay.num
                >= P.decay.den * ((Scale(P.decay) + PruneDen - 1) \div PruneDen)}

\* C14 amended: a dealer's private zone table is created by the first
\* add_spin that names the dealer, and an add_spin removes a dealer from the
\* mapping exactly when its decay step leaves the dealer's table without an
\* entry of at least 1e-6 and the call does not name that dealer; no other
\* call removes a dealer.  With decay 1.0 nothing is pruned and the set of
\* dealers with a table grows monotonically.
C14_DealerKeptWhileWeighty ==
    [][ /\ result'.call = "add_spin" =>
              DealersOf(predictor') =
                  DealersKept(predictor)
                      \cup (IF result'.dealer \in {"A", "B"} /\ result'.number \in 0..36
                            THEN {result'.dealer} ELSE {})
        /\ result'.call = "predict" => DealersOf(predictor') = DealersOf(predictor)
        /\ predictor.decay = NoDecay => DealersOf(predictor) \subseteq DealersOf(predictor')
      ]_vars

\* dealer A had a table after the first spin; the second spin, for dealer B
\* with a decay below 1e-6, removed it
C14_Witness ==
    /\ result.call = "add_spin"
    /\ result.dealer = "B"
    /\ Len(predictor.spins) = 2
    /\ predictor.spins[1][2] = "A"
    /\ DealersOf(predictor) = {"B"}

-----------------------------------------------------------------------------
(* C15 *)

\* weight >= 1e-6
AtLeastEpsilon(w, decay) == w >= (Scale(decay) + PruneDen - 1) \div PruneDen

\* One decay step and one recording took the table from before to after:
\* an entry of before is kept exactly when its weight times the decay factor
\* is at least 1e-6, a kept entry has that weight (plus 1 if its key is
\* incremented), and a key not kept is in after only if it is incremented,
\* with weight 1.
DecayedThenRecorded(before, after, incremented, decay) ==
    LET kept == {key \in Keys(before) :
                    Weight(before, key) * decay.num
                        >= decay.den * ((Scale(decay) + PruneDen - 1) \div PruneDen)}
    IN  /\ Keys(after) = kept \cup incremented
        /\ \A key \in Keys(after) :
              LET gain == IF key \in incremented THEN One(decay) ELSE 0
              IN  IF key \in kept
                  THEN (Weight(after, key) - gain) * decay.den
                            = Weight(before, key) * decay.num
                  ELSE Weight(after, key) = gain

\* the table held for a dealer, empty when the dealer has none
TableOf(P, dealer) ==
    IF dealer \in DealersOf(P) THEN P.dealer_zone_weights[dealer] ELSE EmptyCounter

\* every entry of the Counter weighs at least 1e-6
NoNegligibleEntry(c, decay) ==
    \A i \in 1..Len(c) : AtLeastEpsilon(c[i].w, decay) /\ c[i].w > 0

\* C15: each add_spin performs one synchronized decay step over every owned
\* table (both distance tables, number, color, zone and every dealer zone
\* table) before recording: every entry that survives has its pre-call weight
\* times the decay factor, plus 1 if its key is incremented by this spin; and
\* between calls no table holds an entry below 1e-6, so no weight is negative.
C15_SynchronizedDecay ==
    /\ [][ (result'.call = "add_spin" /\ result'.number \in 0..36) =>
              LET P == predictor
                  Q == predictor'
                  number == result'.number
                  k == Len(Q.spins)
              IN  /\ DecayedThenRecorded(P.number_weights, Q.number_weights,
                                         {number}, P.decay)
                  /\ DecayedThenRecorded(P.color_weights, Q.color_weights,
                                         {get_color(number)}, P.decay)
                  /\ DecayedThenRecorded(P.zone_weights, Q.zone_weights,
                                         {find_zone(number)}, P.decay)
                  /\ \A d \in {"A", "B"} :
                        DecayedThenRecorded(TableOf(P, d), TableOf(Q, d),
                            IF d = result'.dealer THEN {find_zone(number)} ELSE {},
                            P.decay)
                  /\ \A dir \in Directions :
                        DecayedThenRecorded(P.distance_freq[dir], Q.distance_freq[dir],
                            IF k >= 2 /\ dir = ParityDirection(k)
                            THEN {Distance(dir, LastPosition(P), number)} ELSE {},
                            P.decay)
          ]_vars
    /\ [] /\ NoNegligibleEntry(predictor.number_weights, predictor.decay)
          /\ NoNegligibleEntry(predictor.color_weights, predictor.decay)
          /\ NoNegligibleEntry(predictor.zone_weights, predictor.decay)
          /\ \A d \in DealersOf(predictor) :
                NoNegligibleEntry(predictor.dealer_zone_weights[d], predictor.decay)
          /\ \A dir \in Directions :
                NoNegligibleEntry(predictor.distance_freq[dir], predictor.decay)

\* decay 0.9, spins for dealer A then dealer B at the same position: the
\* number entry survived and was incremented (1.9), A's zone entry only
\* decayed (0.9)
C15_Witness ==
    /\ result.call = "add_spin"
    /\ predictor.decay = DefaultDecay
    /\ Len(predictor.spins) = 2
    /\ Weight(predictor.number_weights, result.number)
          = One(DefaultDecay) + (One(DefaultDecay) \div 10) * 9
    /\ result.dealer = "B"
    /\ "A" \in DealersOf(predictor)
    /\ Weight(predictor.dealer_zone_weights["A"], 1) = (One(DefaultDecay) \div 10) * 9

-----------------------------------------------------------------------------
(* C16 *)

\* the last min(len(history), m) records of a history, in arrival order
LastRecords(history, m) ==
    LET kept == IF Len(history) < m THEN Len(history) ELSE m
    IN  [i \in 1..kept |-> history[Len(history) - kept + i]]

\* C16: the spin history is append-only: each add_spin appends exactly one
\* (position, dealer) record at the end and changes no earlier record, and
\* predict_next_top_n changes none; the ring buffer always equals the last
\* min(len(history), max_history) records of the full history in arrival
\* order, so it is never longer than max_history.
C16_HistoryAppendOnly ==
    /\ [][ /\ result'.call = "add_spin" =>
                 /\ Len(predictor'.spins) = Len(predictor.spins) + 1
                 /\ predictor'.spins[Len(predictor'.spins)]
                        = <<result'.number, result'.dealer>>
                 /\ \A i \in 1..Len(predictor.spins) :
                        predictor'.spins[i] = predictor.spins[i]
           /\ result'.call = "predict" =>
                 /\ predictor'.spins = predictor.spins
                 /\ predictor'.spin_history = predictor.spin_history
         ]_vars
    /\ [] /\ predictor.spin_history = LastRecords(predictor.spins, predictor.max_history)
          /\ Len(predictor.spin_history) <= predictor.max_history
          /\ peer.spin_history = peer.spins

\* three spins recorded under max_history = 2: the ring buffer holds the
\* second and the third
C16_Witness ==
    /\ result.call = "add_spin"
    /\ predictor.max_history = 2
    /\ Len(predictor.spins) = 3
    /\ predictor.spin_history = <<predictor.spins[2], predictor.spins[3]>>
    /\ predictor.spins[1] # predictor.spins[2]

-----------------------------------------------------------------------------
(* C17 *)

\* C17: two predictors with the same decay factor fed the identical sequence
\* of add_spin calls return the identical value from predict_next_top_n for
\* every n and dealer at every step, the order of tied entries included, even
\* when their max_history differs and the history is longer than the smaller
\* bound.
C17_ReportIgnoresRingBound ==
    /\ peer.spins = predictor.spins
    /\ peer.decay = predictor.decay
    /\ peer.max_history # predictor.max_history
    /\ \A n \in TopNs, dealer \in Dealers :
          predict_next_top_n(predictor, n, dealer) = predict_next_top_n(peer, n, dealer)
    /\ result.call = "predict" =>
          \E n \in TopNs, dealer \in Dealers :
              result.value = predict_next_top_n(peer, n, dealer)

\* a report with two hot numbers of the same weight, after the ring buffer
\* of the one predictor has dropped a record the other still holds
C17_Witness ==
    /\ Reported
    /\ Len(predictor.spins) > predictor.max_history
    /\ predictor.spin_history # peer.spin_history
    /\ Len(result.value.hot_numbers) >= 2
    /\ result.value.hot_numbers[1].freq = result.value.hot_numbers[2].freq
    /\ result.value.hot_numbers[1].key # result.value.hot_numbers[2].key

-----------------------------------------------------------------------------
(* C18 *)

\* C18: in every state with at least one recorded spin (valid positions
\* only) the number, color and overall zone tables each hold the key of the
\* most recent spin with weight at least 1, and every dealer in the
\* dealer-to-table mapping has a non-empty table.  So every total that
\* predict_next_top_n divides by is strictly positive: the totals of the
\* number, color and zone tables, of the resolved distance table when the
\* prediction gets past NoDistanceData, and of a listed dealer's entries.
C18_TotalsPositive ==
    predictor.spins # << >> =>
        LET last == LastPosition(predictor)
            dir == ParityDirection(Len(predictor.spins) + 1)
        IN  /\ Weight(predictor.number_weights, last) >= One(predictor.decay)
            /\ Weight(predictor.color_weights, get_color(last)) >= One(predictor.decay)
            /\ Weight(predictor.zone_weights, find_zone(last)) >= One(predictor.decay)
            /\ Total(predictor.number_weights) > 0
            /\ Total(predictor.color_weights) > 0
            /\ Total(predictor.zone_weights) > 0
            /\ \A d \in DealersOf(predictor) :
                  /\ predictor.dealer_zone_weights[d] # << >>
                  /\ Total(most_common(predictor.dealer_zone_weights[d], HotZonesTop)) > 0
            /\ predictor.distance_freq[dir] # << >> =>
                  Total(predictor.distance_freq[dir]) > 0
            /\ \A n \in TopNs, dealer \in Dealers :
                  predict_next_top_n(predictor, n, dealer).kind
                      \in {"NoDistanceData", "Report"}

\* a report for dealer A, whose table holds only a decayed entry
C18_Witness ==
    /\ Reported
    /\ result.value.dealer = "A"
    /\ predictor.decay = DefaultDecay
    /\ "A" \in DealersOf(predictor)
    /\ Total(predictor.dealer_zone_weights["A"]) < One(DefaultDecay)
    /\ Len(result.value.dealer_zones) = 1

-----------------------------------------------------------------------------
(* C19 *)

\* the total of a distance table in whole observations (no decay)
Samples(distance_freq, dir) == Total(distance_freq[dir])

\* the totals of the two distance tables after N spins without decay
ParityTotals(distance_freq, N) ==
    N >= 1 =>
        /\ Samples(distance_freq, "clockwise") = (N - 1) \div 2
        /\ Samples(distance_freq, "anticlockwise") = N \div 2
        /\ Samples(distance_freq, "clockwise") + Samples(distance_freq, "anticlockwise")
              = N - 1

\* the k-th spin added one sample to the table of the direction of k, if
\* k >= 2, and none to the other table
SampleByParity(before, after, k) ==
    LET dir == ParityDirection(k)
    IN  /\ Samples(after, dir) = Samples(before, dir) + (IF k >= 2 THEN 1 ELSE 0)
        /\ after[OtherDirection(dir)] = before[OtherDirection(dir)]

\* C19: a direction's distance table is incremented only by spins whose
\* 1-based index has that direction's parity, and the first spin adds no
\* sample: without decay (the simple predictor, or decay 1.0) after N >= 1
\* add_spin calls the clockwise table totals floor((N-1)/2), the
\* anticlockwise table floor(N/2), together N-1.
C19_SamplesByParity ==
    /\ [] /\ ParityTotals(simple.distance_freq, Len(simple.spins))
          /\ predictor.decay = NoDecay =>
                ParityTotals(predictor.distance_freq, Len(predictor.spins))
    /\ [][ result'.call = "add_spin" =>
              /\ SampleByParity(simple.distance_freq, simple'.distance_freq,
                                Len(simple'.spins))
              /\ predictor.decay = NoDecay =>
                    SampleByParity(predictor.distance_freq, predictor'.distance_freq,
                                   Len(predictor'.spins))
         ]_vars

\* five spins without decay: two samples in each table, in both predictors
C19_Witness ==
    /\ result.call = "add_spin"
    /\ predictor.decay = NoDecay
    /\ Len(predictor.spins) = 5
    /\ Len(simple.spins) = 5
    /\ Samples(predictor.distance_freq, "clockwise") = 2
    /\ Samples(simple.distance_freq, "anticlockwise") = 2

-----------------------------------------------------------------------------
(* C20 *)

\* the distance dimension of the two values of predict_next_top_n
SameDistanceOutcome(rich, plain) ==
    /\ rich.kind = plain.kind
    /\ rich.kind \in {"NoHistory", "NoDistanceData", "Report"}
    /\ rich.kind = "NoDistanceData" => rich.direction = plain.direction
    /\ rich.kind = "Report" =>
          /\ rich.spin_number = plain.spin_number
          /\ rich.direction = plain.direction
          /\ rich.dist_predictions = plain.results

\* C20: the simple predictor and the richer predictor with decay 1.0, fed
\* the same positions, hold the same entries in the clockwise and in the
\* anticlockwise distance table after every step, and predict_next_top_n
\* yields the same outcome kind with the same spin index, direction and
\* ranked (candidate, distance, probability) list.
C20_SimpleEqualsUndecayed ==
    predictor.decay = NoDecay =>
        /\ simple.spins = PositionsOf(predictor)
        /\ \A dir \in Directions : simple.distance_freq[dir] = predictor.distance_freq[dir]
        /\ \A n \in TopNs, dealer \in Dealers :
              SameDistanceOutcome(predict_next_top_n(predictor, n, dealer),
                                  simple_predict_next_top_n(simple, n))
        /\ result.call = "predict" =>
              SameDistanceOutcome(result.value, result.simple_value)

\* both predictors reported two ranked candidates after five spins
C20_Witness ==
    /\ Reported
    /\ predictor.decay = NoDecay
    /\ Len(simple.spins) = 5
    /\ result.simple_value.kind = "Report"
    /\ Len(result.simple_value.results) = 2
    /\ result.value.dist_predictions = result.simple_value.results

====
